---- MODULE Spec2Model ----
(***************************************************************************)
(* Model of the resolution engine of saggitarius-di: DefinitionResolver,   *)
(* DependencyProvider, ObjectFactory, ObjectProvider and the two entry     *)
(* points of DependencyManager (get, create).                              *)
(*                                                                         *)
(* Every call of DependencyProvider.get is a node of a call tree.  A step  *)
(* of the model is one synchronous run of the code between two awaits; the *)
(* steps of different nodes interleave freely, which contains every order  *)
(* the JavaScript job queue can produce.                                   *)
(*                                                                         *)
(* Future (package @saggitarius/future) is taken to be a settle-once cell  *)
(* that an async function adopts when it returns it (the declared return   *)
(* types Promise<T> of the functions returning a Future require it to be   *)
(* PromiseLike).  The engine only ever calls set on it, never a rejection. *)
(***************************************************************************)
EXTENDS Integers, Sequences, FiniteSets, TLC

\* Number of top-level calls (get or create) made on the manager.
MaxCalls == 2

\* Length of the longest chain of Reference definitions that is followed.
MaxHops == 2

\* Number of bind operations made after resolution has started.
MaxBinds == 1

----------------------------------------------------------------------------
(* Definition model (definition.ts)                                        *)

\* A dependency slot that is not set.
Undefined == "undefined"

\* Definition.makeType: a Type definition that carries only its type token.
\* copy tells the objects apart that hold the same fields: 0 is the
\* Definition object itself, k the k-th shallow copy made of it.  obj tells
\* the Definition objects apart that were stored under one type token, in
\* the order they were stored.
makeType(type) ==
    [kind |-> "type", type |-> type, shared |-> "unset", factory |-> "none",
     hasArgs |-> FALSE, args |-> <<>>, hasProps |-> FALSE, propKeys |-> <<>>,
     props |-> <<>>, elements |-> <<>>, keys |-> <<>>, target |-> "", value |-> 0,
     copy |-> 0, obj |-> 1]

\* Definition.makeValue: a literal payload.
makeValue(value) ==
    [makeType("") EXCEPT !.kind = "value", !.value = value]

\* Definition.makeArray: an ordered list of dependency slots.
makeArray(elements) ==
    [makeType("") EXCEPT !.kind = "array", !.elements = elements]

\* Definition.makeRecord: keys[i] names the slot elements[i].
makeRecord(keys, elements) ==
    [makeType("") EXCEPT !.kind = "record", !.keys = keys, !.elements = elements]

----------------------------------------------------------------------------
(* Binding API: how the registry's definitions are written                 *)

\* Binding.toClass / toFactory: factory is "ok" (the constructor returns) or
\* "throws" (the constructor throws).
toClass(def, factory) ==
    [def EXCEPT !.kind = "type", !.factory = factory]

\* Binding.toArray
toArray(def, elements) ==
    [def EXCEPT !.kind = "array", !.elements = elements]

\* Binding.toRecord
toRecord(def, keys, elements) ==
    [def EXCEPT !.kind = "record", !.keys = keys, !.elements = elements]

\* Binding.toType: the definition becomes an alias of target.
toType(def, target) ==
    [def EXCEPT !.kind = "reference", !.target = target]

\* Binding.toValue
toValue(def, value) ==
    [def EXCEPT !.kind = "value", !.value = value]

\* TypeBinding.shared
shared(def, flag) ==
    [def EXCEPT !.shared = IF flag THEN "yes" ELSE "no"]

\* TypeBinding.withArguments
withArguments(def, args) ==
    [def EXCEPT !.hasArgs = TRUE, !.args = args]

\* TypeBinding.withProperties
withProperties(def, keys, props) ==
    [def EXCEPT !.hasProps = TRUE, !.propKeys = keys, !.props = props]

----------------------------------------------------------------------------
(* Registries the manager is populated with before resolution starts       *)

\* dm.bind("foo").toClass(Foo).withArgument(0, Definition.makeValue("tester"));
\* dm.bind("boo").toClass(Boo).withArgument(0, "foo");
FooBooRegistry ==
    ("foo" :> withArguments(toClass(makeType("foo"), "ok"), <<"tester">>)) @@
    ("boo" :> withArguments(toClass(makeType("boo"), "ok"), <<"foo">>))

\* a takes b and c; b takes d through the alias id, c takes d directly.
DiamondRegistry(dShared) ==
    ("a" :> withArguments(toClass(makeType("a"), "ok"), <<"b", "c">>)) @@
    ("b" :> withArguments(toClass(makeType("b"), "ok"), <<"id">>)) @@
    ("c" :> withArguments(toClass(makeType("c"), "ok"), <<"d">>)) @@
    ("id" :> toType(makeType("id"), "d")) @@
    ("d" :> IF dShared THEN toClass(makeType("d"), "ok")
                       ELSE shared(toClass(makeType("d"), "ok"), FALSE))

\* a takes b as constructor argument and b takes a.
Flag(def, s) ==
    IF s = "unset" THEN def ELSE shared(def, s = "yes")

CycleRegistry(aShared, bShared) ==
    ("a" :> Flag(withArguments(toClass(makeType("a"), "ok"), <<"b">>), aShared)) @@
    ("b" :> Flag(withArguments(toClass(makeType("b"), "ok"), <<"a">>), bShared))

\* w reaches the throwing t through an argument, an Array and a Record;
\* t is a shared type whose constructor throws.
ThrowRegistry ==
    ("t" :> toClass(makeType("t"), "throws")) @@
    ("w" :> withArguments(toClass(makeType("w"), "ok"), <<"list">>))

\* v has a property bound to u, a token that is never bound; n is bound
\* non-shared and was given no factory; x carries a kind tag that is none of
\* the known ones.
MissingRegistry ==
    ("v" :> withProperties(toClass(makeType("v"), "ok"), <<"p">>, <<"u">>)) @@
    ("n" :> shared(makeType("n"), FALSE)) @@
    ("x" :> [makeType("x") EXCEPT !.kind = "unknown"]) @@
    ("y" :> withArguments(toClass(makeType("y"), "ok"), <<"x">>))

\* arr holds a non-shared type, an unset slot and a literal value; rec holds
\* arr and an unset field.
CollectionRegistry ==
    ("arr" :> toArray(makeType("arr"), <<"n", Undefined, "one">>)) @@
    ("rec" :> toRecord(makeType("rec"), <<"k1", "k2">>, <<"arr", Undefined>>)) @@
    ("n" :> shared(toClass(makeType("n"), "ok"), FALSE))

\* s takes a literal as constructor argument and has a property bound to r,
\* and r takes s as constructor argument.
PropertyRegistry ==
    ("s" :> withProperties(withArguments(toClass(makeType("s"), "ok"), <<"one">>),
                           <<"q">>, <<"r">>)) @@
    ("r" :> withArguments(toClass(makeType("r"), "ok"), <<"s">>))

\* alias refers to via, via refers to c.
ChainRegistry ==
    ("alias" :> toType(makeType("alias"), "via")) @@
    ("via" :> toType(makeType("via"), "c")) @@
    ("c" :> toClass(makeType("c"), "ok"))

\* alias refers to p, which is bound with an argument and without a factory:
\* a plugin resolver supplies it.
PluginRegistry ==
    ("alias" :> toType(makeType("alias"), "p")) @@
    ("p" :> withArguments(makeType("p"), <<"one">>))

\* z is bound to a class; k is not bound when resolution starts.
RebindRegistry ==
    ("z" :> toClass(makeType("z"), "ok"))

\* The bind operations made on k while calls are running:
\* dm.bind("k").toClass(K), .toValue(1), .toType("z"),
\* .withArgument(0, Definition.makeValue(1)), .shared(false).
Rebinds ==
    {[type |-> "k", op |-> o] :
        o \in {"toClass", "toValue", "toType", "withArgument", "shared"}}

\* loop is bound by toType to itself; ping and pong to each other.
LoopRegistry ==
    ("loop" :> toType(makeType("loop"), "loop")) @@
    ("ping" :> toType(makeType("ping"), "pong")) @@
    ("pong" :> toType(makeType("pong"), "ping"))

\* Definition objects that are passed as dependencies without being bound
\* to a token.
Literals ==
    ("tester" :> makeValue(1)) @@
    ("one" :> makeValue(1)) @@
    ("list" :> makeArray(<<"fields">>)) @@
    ("fields" :> makeRecord(<<"k">>, <<"t">>))

\* The registries, with the type tokens the top-level calls ask for, the
\* number of top-level calls made beyond MaxCalls (fewer when negative), the
\* number of plugin resolvers the DefinitionResolver was constructed with
\* (none in bootstrap) and the bind operations made while calls are running.
Scenarios ==
    << [registry |-> FooBooRegistry, gets |-> {"foo", "boo"}, creates |-> {},
        more |-> 1, resolvers |-> 0, binds |-> {}],
       [registry |-> DiamondRegistry(TRUE), gets |-> {"a", "d"}, creates |-> {},
        more |-> 0, resolvers |-> 0, binds |-> {}],
       [registry |-> DiamondRegistry(FALSE), gets |-> {"a", "d"}, creates |-> {},
        more |-> 0, resolvers |-> 0, binds |-> {}],
       [registry |-> CycleRegistry("unset", "unset"), gets |-> {"a"}, creates |-> {"a"},
        more |-> 0, resolvers |-> 0, binds |-> {}],
       [registry |-> CycleRegistry("yes", "no"), gets |-> {"a"}, creates |-> {"a"},
        more |-> 0, resolvers |-> 0, binds |-> {}],
       [registry |-> CycleRegistry("no", "unset"), gets |-> {"a"}, creates |-> {"a"},
        more |-> 0, resolvers |-> 0, binds |-> {}],
       [registry |-> CycleRegistry("no", "no"), gets |-> {"a"}, creates |-> {"a"},
        more |-> 0, resolvers |-> 0, binds |-> {}],
       [registry |-> ThrowRegistry, gets |-> {"t", "w"}, creates |-> {"t"},
        more |-> 0, resolvers |-> 0, binds |-> {}],
       [registry |-> MissingRegistry, gets |-> {"u", "v", "n", "y"}, creates |-> {"u"},
        more |-> 0, resolvers |-> 0, binds |-> {}],
       [registry |-> CollectionRegistry, gets |-> {"rec"}, creates |-> {},
        more |-> -1, resolvers |-> 0, binds |-> {}],
       [registry |-> PropertyRegistry, gets |-> {"s", "r"}, creates |-> {},
        more |-> 0, resolvers |-> 0, binds |-> {}],
       [registry |-> ChainRegistry, gets |-> {"alias", "via", "c"}, creates |-> {},
        more |-> 1, resolvers |-> 0, binds |-> {}],
       [registry |-> PluginRegistry, gets |-> {"alias", "p"}, creates |-> {},
        more |-> 0, resolvers |-> 2, binds |-> {}],
       [registry |-> RebindRegistry, gets |-> {"k"}, creates |-> {},
        more |-> 0, resolvers |-> 0, binds |-> Rebinds],
       [registry |-> LoopRegistry, gets |-> {"loop", "ping"}, creates |-> {},
        more |-> -1, resolvers |-> 0, binds |-> {}],
       [registry |-> FooBooRegistry, gets |-> {"foo"}, creates |-> {"foo"},
        more |-> 0, resolvers |-> 0, binds |-> {}] >>

----------------------------------------------------------------------------
(* Runtime values                                                          *)

Value(k, id, elems, keys) == [k |-> k, id |-> id, elems |-> elems, keys |-> keys]

\* No value yet: an array slot that was not assigned, a result not produced.
NoValue == Value("none", <<>>, <<>>, <<>>)
\* The JavaScript value undefined.
Undef == Value("undefined", <<>>, <<>>, <<>>)
\* The state of a Future that was not set.
Pending == Value("pending", <<>>, <<>>, <<>>)
\* The payload of a Value definition.
Payload(v) == Value("payload", <<v>>, <<>>, <<>>)
\* The object produced by the factory invocation of the call n.
Instance(n) == Value("instance", n, <<>>, <<>>)
ArrayOf(elems) == Value("array", <<>>, elems, <<>>)
RecordOf(keys, elems) == Value("record", <<>>, elems, keys)

\* Reading a slot: a slot that was never assigned reads as undefined.
Read(v) == IF v = NoValue THEN Undef ELSE v

----------------------------------------------------------------------------
(* State                                                                   *)

VARIABLES
    scenario,     \* which registry the manager was populated with
    defRegistry,  \* DefinitionRegistry: type token -> Definition object
    cache,        \* Definition object -> the resolution object it carries
    resolution,   \* resolution object -> its fields (the copy of the definition)
    objRegistry,  \* InstanceRegistry: resolution object -> state of its Future
    nodes,        \* the calls of DependencyProvider.get
    made,         \* the factory invocations, by the call that made them
    bindings      \* the bind operations made while calls were running, in order

vars == <<scenario, defRegistry, cache, resolution, objRegistry, nodes, made, bindings>>

EmptyMap == [x \in {} |-> ""]

\* The Definition object a dependency names once it is known to exist.
Object(registry, name) ==
    IF name \in DOMAIN Literals THEN Literals[name] ELSE registry[name]

\* The resolution object of the arrays and records ObjectFactory makes on the
\* fly for args and props: a new object on every call, equal to no other.
Anonymous == "<anonymous>"

----------------------------------------------------------------------------
(* DefinitionResolver                                                      *)

\* DefinitionResolver.getDefinition: a type token is looked up in the
\* registry and bound to a Type placeholder when it is missing; a Definition
\* object is taken as it is.  The registry afterwards.
GetDefinition(registry, type) ==
    IF type \in DOMAIN Literals \/ type \in DOMAIN registry
    THEN registry
    ELSE registry @@ (type :> makeType(type))

\* The body of the while loop of resolve at the Reference obj: it is
\* recorded and its target looked up; the loop is left when the target
\* carries a resolution.
Follow(c, cch, obj) ==
    [registry |-> GetDefinition(c.registry, obj.target),
     def |-> obj.target,
     tags |-> Append(c.tags, c.def),
     done |-> obj.target \in DOMAIN cch]

\* A variant of the loop test with a guard: the loop is also left at a
\* Reference that was recorded before.
ChaseStepGuarded(c, cch) ==
    IF c.done \/ \E i \in DOMAIN c.tags : c.tags[i] = c.def
    THEN [c EXCEPT !.done = TRUE]
    ELSE IF Object(c.registry, c.def).kind # "reference"
    THEN [c EXCEPT !.done = TRUE]
    ELSE Follow(c, cch, Object(c.registry, c.def))

\* One test of the while loop of resolve on the definition c.def: the loop
\* is left at a definition that is no Reference.
ChaseStep(c, cch) ==
    IF c.done THEN c
    ELSE IF Object(c.registry, c.def).kind # "reference"
    THEN [c EXCEPT !.done = TRUE]
    ELSE Follow(c, cch, Object(c.registry, c.def))

\* A variant of resolve without the while loop: the definition asked for is
\* taken as it is.
ChaseNoFollow(registry, cch, name) ==
    [registry |-> registry, def |-> name, tags |-> <<>>, done |-> TRUE]

\* The while loop of resolve, started at the definition name and followed
\* over at most MaxHops References; done tells whether the loop was left.
Chase(registry, cch, name) ==
    LET at[i \in 0..(MaxHops + 1)] ==
            IF i = 0
            THEN [registry |-> registry, def |-> name, tags |-> <<>>, done |-> FALSE]
            ELSE ChaseStep(at[i - 1], cch)
    IN at[MaxHops + 1]

\* const resolved = {...def}: the k-th shallow copy of a Definition object.
ShallowCopy(def, k) == [def EXCEPT !.copy = k]

\* A variant of Object.assign in which a field that was given a value
\* before keeps it.
AssignOnce(resolved, data) ==
    [f \in DOMAIN resolved |->
        IF f \in DOMAIN data /\ resolved[f] \in {"none", "unset"}
        THEN data[f] ELSE resolved[f]]

\* Object.assign(resolved, data): the fields of data replace those of resolved.
Assign(resolved, data) ==
    [f \in DOMAIN resolved |-> IF f \in DOMAIN data THEN data[f] ELSE resolved[f]]

\* A variant of defineProperty on a writable property: the value is replaced.
DefinePropertyWritable(carried, def, value) == (def :> value) @@ carried

\* Reflect.defineProperty(def, ResolvedSymbol, {writable: false, configurable:
\* false, value}): a definition that carries a value keeps it, and the call
\* returns false without throwing.
DefineProperty(carried, def, value) == carried @@ (def :> value)

\* The number of plugin resolvers of the DefinitionResolver.
Resolvers == Scenarios[scenario].resolvers

\* The partial data the i-th plugin resolver returns for the copy it is
\* given: the first supplies a factory and marks the type non-shared, the
\* second marks it shared; they return nothing for the other kinds.
PluginData(i, resolved) ==
    IF resolved.kind # "type" THEN EmptyMap
    ELSE IF i = 1 THEN [factory |-> "ok", shared |-> "no"]
    ELSE [shared |-> "yes"]

\* A variant of the end of resolve that gives the resolution to the last
\* Reference recorded only.
TaggedLastOnly(end, cch, res) ==
    [registry |-> end.registry,
     cache |-> cch @@ [t \in {end.tags[i] : i \in {Len(end.tags)} \cap DOMAIN end.tags}
                          |-> cch[end.def]],
     resolution |-> res,
     result |-> cch[end.def]]

\* The end of resolve: every Reference recorded gets the resolution of the
\* definition the loop ended at, unless it carries one already (the property
\* is not writable); that resolution is returned.
Tagged(end, cch, res) ==
    [registry |-> end.registry,
     cache |-> cch @@ [t \in {end.tags[i] : i \in DOMAIN end.tags} |-> cch[end.def]],
     resolution |-> res,
     result |-> cch[end.def]]

\* The middle of resolve, with the empty list of plugin resolvers the
\* bootstrap passes: a definition without resolution gets a copy of itself.
Cached(end, cch, res) ==
    IF end.def \in DOMAIN cch
    THEN Tagged(end, cch, res)
    ELSE Tagged(end, cch @@ (end.def :> end.def),
                DefineProperty(res, end.def, ShallowCopy(Object(end.registry, end.def), 1)))

\* DefinitionResolver.resolve; there is no suspension in it when no plugin
\* resolver is registered.  Gives the registry, the caches and the
\* resolutions afterwards, and the resolution object returned.
Resolve(registry, cch, res, type) ==
    Cached(Chase(GetDefinition(registry, type), cch, type), cch, res)

----------------------------------------------------------------------------
(* Calls of DependencyProvider.get                                         *)

\* A call of DependencyProvider.get is named by its place in the call tree:
\* <<k>> is the k-th top-level call, Append(n, i) the call n makes for its
\* slot i, for its arguments (ArgsSlot) or for its properties (PropsSlot).
ArgsSlot == 0
PropsSlot == -1
Parent(n) == SubSeq(n, 1, Len(n) - 1)
Slot(n) == n[Len(n)]
IsTopLevel(n) == Len(n) = 1

\* A call of DependencyProvider.get(ctx, dep).  stack, reg, shared and
\* instance are the fields of the context the call forks, set when it forks;
\* later records of a top-level call that it was made after all earlier
\* ones had settled.
Node(role, dep, def, pc) ==
    [role |-> role, dep |-> dep, def |-> def,
     pc |-> pc, stack |-> <<>>, reg |-> EmptyMap, shared |-> FALSE,
     instance |-> "", future |-> "", elems |-> <<>>, arrived |-> <<>>, left |-> 0,
     fail |-> "",
     argv |-> NoValue, propv |-> NoValue, val |-> NoValue, err |-> "",
     end |-> "", tags |-> <<>>, plugin |-> 0, resolved |-> NoValue, got |-> 0,
     later |-> FALSE]

\* The call n of get awaits the resolution r of its dependency, which
\* resolve returned without suspending; got is the copy it returned.
Called(st, n, role, dep, r) ==
    [registry |-> r.registry, cache |-> r.cache, resolution |-> r.resolution,
     nodes |-> st.nodes @@
               (n :> [Node(role, dep, r.result, "resolved")
                         EXCEPT !.got = r.resolution[r.result].copy])]

\* The shallow copies made so far of the definition def by calls of resolve
\* that ran the plugin resolvers.
CopiesMade(ns, def) ==
    Cardinality({m \in DOMAIN ns : ns[m].end = def /\ ns[m].plugin > 0})

\* resolve is suspended at its first plugin resolver: the loop ended at a
\* definition that carries no resolution, a copy of it was made and handed
\* to the resolver.  end is where the while loop ended.
Suspended(st, n, role, dep, end) ==
    [registry |-> end.registry, cache |-> st.cache, resolution |-> st.resolution,
     nodes |-> st.nodes @@
               (n :> [Node(role, dep, "", "resolving")
                         EXCEPT !.end = end.def, !.tags = end.tags, !.plugin = 1,
                                !.resolved =
                                    ShallowCopy(Object(end.registry, end.def),
                                                CopiesMade(st.nodes, end.def) + 1)])]

\* resolve runs the plugin resolvers: there are some and the definition the
\* loop ended at carries no resolution.
RunsPlugins(st, dep) ==
    /\ Resolvers > 0
    /\ Chase(GetDefinition(st.registry, dep), st.cache, dep).def \notin DOMAIN st.cache

\* resolve is in its while loop after more than MaxHops References: at is
\* how far the loop got.
Looping(st, n, role, dep, at) ==
    [st EXCEPT !.registry = at.registry,
               !.nodes = @ @@ (n :> [Node(role, dep, "", "looping")
                                        EXCEPT !.end = at.def, !.tags = at.tags])]

\* A variant of get without the test for undefined.
CallWhateverDep(st, n, role, dep) ==
    Called(st, n, role, dep, Resolve(st.registry, st.cache, st.resolution, dep))

\* DependencyProvider.get up to its first await, for the dependency dep:
\* undefined returns at once, anything else is resolved.  st holds the
\* registry, the caches, the resolutions and the nodes.
Call(st, n, role, dep) ==
    IF dep = Undefined
    THEN [st EXCEPT !.nodes = @ @@ (n :> Node(role, dep, "", "undefined"))]
    ELSE IF ~Chase(GetDefinition(st.registry, dep), st.cache, dep).done
    THEN Looping(st, n, role, dep, Chase(GetDefinition(st.registry, dep), st.cache, dep))
    ELSE IF RunsPlugins(st, dep)
    THEN Suspended(st, n, role, dep, Chase(GetDefinition(st.registry, dep), st.cache, dep))
    ELSE Called(st, n, role, dep, Resolve(st.registry, st.cache, st.resolution, dep))

\* The map callback of getArray and getRecord run over the slots from index
\* i on: one call of get per slot, in declaration order, as long as each
\* call returns its promise.
RECURSIVE CallAll(_, _, _, _)
CallAll(st, parent, deps, i) ==
    IF i > Len(deps) \/ \E m \in DOMAIN st.nodes : st.nodes[m].pc = "looping" THEN st
    ELSE CallAll(Call(st, Append(parent, i), "element", deps[i]), parent, deps, i + 1)

\* The array or record definition ObjectFactory makes on the fly for the
\* arguments or the properties of the resolved definition of.
MadeFor(of, role) ==
    IF role = "args" THEN makeArray(of.args) ELSE makeRecord(of.propKeys, of.props)

\* ObjectFactory.getArgs and getProps: get is called with an array or record
\* definition made on the fly, which resolves to a copy of itself; resolve
\* hands that copy to the plugin resolvers when there are any.
CallAnonymous(st, parent, role) ==
    [st EXCEPT !.nodes =
        @ @@ (Append(parent, IF role = "args" THEN ArgsSlot ELSE PropsSlot)
              :> IF Resolvers = 0
                 THEN [Node(role, "", Anonymous, "resolved") EXCEPT !.got = 1]
                 ELSE [Node(role, "", Anonymous, "resolving")
                          EXCEPT !.end = Anonymous, !.plugin = 1,
                                 !.resolved =
                                     ShallowCopy(MadeFor(st.resolution[st.nodes[parent].def],
                                                         role), 1)])]

State == [registry |-> defRegistry, cache |-> cache, resolution |-> resolution,
          nodes |-> nodes]

\* The resolved definition a node works on.
DefOf(n) ==
    IF nodes[n].def # Anonymous THEN resolution[nodes[n].def]
    ELSE ShallowCopy(MadeFor(resolution[nodes[Parent(n)].def], nodes[n].role), 1)

\* A variant of the context a node is called with in which the contexts of
\* one top-level call share one registry map: the registry holds what any of
\* them stored.
CtxOfSharedRegistry(n) ==
    IF IsTopLevel(n)
    THEN [stack |-> <<>>, reg |-> EmptyMap, shared |-> nodes[n].role = "get"]
    ELSE [stack |-> nodes[Parent(n)].stack,
          reg |-> [h \in UNION {DOMAIN nodes[m].reg :
                                    m \in {k \in DOMAIN nodes : k[1] = n[1]}} |-> h],
          shared |-> nodes[Parent(n)].shared]

\* The context a node was called with: the one its caller forked; a
\* top-level call gets a new context with an empty stack and no registry.
CtxOf(n) ==
    IF IsTopLevel(n)
    THEN [stack |-> <<>>, reg |-> EmptyMap, shared |-> nodes[n].role = "get"]
    ELSE [stack |-> nodes[Parent(n)].stack,
          reg |-> nodes[Parent(n)].reg,
          shared |-> nodes[Parent(n)].shared]

\* DependencyProvider.hashOf: the type token of a Type definition, nothing
\* ("") for the other kinds.
HashOf(def) == IF def.kind = "type" THEN def.type ELSE ""

\* Variants of isShared: one that ignores the flag, one that takes the
\* absent flag for false.
IsSharedWhateverFlag(def) == def.kind = "type"
IsSharedWhenFlagged(def) == def.kind = "type" /\ def.shared = "yes"

\* DependencyProvider.isShared
IsShared(def) ==
    def.kind = "type" /\ (def.shared = "unset" \/ def.shared = "yes")

\* stack.includes(dep) in forkContext
StackIncludes(stack, def) ==
    def # Anonymous /\ \E i \in DOMAIN stack : stack[i] = def

\* A variant of forkContext that passes the stack on as it is.
ForkContextSameStack(ctx, name, def) ==
    [stack |-> ctx.stack, reg |-> ctx.reg, shared |-> IsShared(def)]

\* The context forkContext returns: the stack with the definition appended,
\* a copy of the registry, shared computed from the definition alone.
ForkContext(ctx, name, def) ==
    [stack |-> Append(ctx.stack, name), reg |-> ctx.reg, shared |-> IsShared(def)]

\* A variant of the fork in which the context keeps the instance Future of
\* the context it was forked from.
ForkedWithInstance(n) ==
    [nodes[n] EXCEPT !.stack = Append(CtxOf(n).stack, nodes[n].def),
                     !.reg = CtxOf(n).reg,
                     !.shared = IsShared(DefOf(n)),
                     !.instance = IF IsTopLevel(n) THEN "" ELSE nodes[Parent(n)].instance]

\* A node with the context it forked.
Forked(n) ==
    LET ctx == ForkContext(CtxOf(n), nodes[n].def, DefOf(n))
    IN [nodes[n] EXCEPT !.stack = ctx.stack, !.reg = ctx.reg, !.shared = ctx.shared]

\* A variant of the map callback that pushes the value: elems.push(await
\* this.get(ctx, def)) fills the first free slot.
PushElement(elems, index, value) ==
    LET free == {i \in DOMAIN elems : elems[i] = NoValue}
        first == CHOOSE i \in free : \A j \in free : i <= j
    IN [elems EXCEPT ![first] = value]

\* elems[index] = await this.get(ctx, def)
StoreElement(elems, index, value) == [elems EXCEPT ![index] = value]

\* A variant of the callers that catch the rejection of the call they await
\* and go on with undefined in its place.
ReceiveCaught(par, role, slot, val, err) ==
    LET got == IF err # "" THEN Undef ELSE val
    IN IF role = "element"
       THEN [par EXCEPT !.elems = [@ EXCEPT ![slot] = got], !.left = @ - 1,
                        !.arrived = Append(@, slot)]
       ELSE IF role = "args" THEN [par EXCEPT !.argv = got]
       ELSE [par EXCEPT !.propv = got]

\* What the caller's frame holds once the call it awaits has settled:
\* the element stored or the first rejection kept (Promise.all), the
\* arguments, the properties.  arrived lists the slots in the order in which
\* their calls were fulfilled.
Receive(par, role, slot, val, err) ==
    IF err # ""
    THEN [par EXCEPT !.fail = IF @ = "" THEN err ELSE @,
                     !.left = IF role = "element" THEN @ - 1 ELSE @]
    ELSE IF role = "element"
         THEN [par EXCEPT !.elems = StoreElement(@, slot, val), !.left = @ - 1,
                          !.arrived = Append(@, slot)]
         ELSE IF role = "args" THEN [par EXCEPT !.argv = val]
         ELSE [par EXCEPT !.propv = val]

\* The promise of node n settles, fulfilled with val or rejected with err
\* (err # ""), and the continuation of its caller takes the outcome.
Settle(ns, n, val, err) ==
    LET me == [ns[n] EXCEPT !.pc = "done", !.val = val, !.err = err]
    IN IF IsTopLevel(n) THEN [ns EXCEPT ![n] = me]
       ELSE [ns EXCEPT ![n] = me,
                       ![Parent(n)] = Receive(ns[Parent(n)], ns[n].role, Slot(n), val, err)]

\* A call of resolve is in its while loop: the one thread is busy, and no
\* other code runs before the loop is left.
Hung == \E n \in DOMAIN nodes : nodes[n].pc = "looping"

\* The call n exists.
IsNode(n) == n \in DOMAIN nodes
Roots == {n \in DOMAIN nodes : IsTopLevel(n)}

----------------------------------------------------------------------------
(* Initial state: bootstrap() followed by the binds of one scenario        *)

Init ==
    /\ scenario \in DOMAIN Scenarios
    /\ defRegistry = Scenarios[scenario].registry
    /\ cache = EmptyMap
    /\ resolution = EmptyMap
    /\ objRegistry = EmptyMap
    /\ nodes = [n \in {} |-> Node("", "", "", "")]
    /\ made = [n \in {} |-> NoValue]
    /\ bindings = <<>>

----------------------------------------------------------------------------
(* DependencyManager                                                       *)

\* The registry, the caches, the resolutions and the nodes become those of st.
Becomes(st) ==
    /\ defRegistry' = st.registry
    /\ cache' = st.cache
    /\ resolution' = st.resolution
    /\ nodes' = st.nodes

\* The top-level call r is recorded as a later, independent one when every
\* top-level call made before it had settled when it was made.
Began(st, r, settled) ==
    [st EXCEPT !.nodes = [@ EXCEPT ![r].later = settled]]

\* A call of get or create on the manager: the promises of the earlier calls
\* may have been awaited or not.
TopLevel(role, type) ==
    /\ ~Hung
    /\ Cardinality(Roots) < MaxCalls + Scenarios[scenario].more
    /\ Becomes(Began(Call(State, <<Cardinality(Roots) + 1>>, role, type),
                     <<Cardinality(Roots) + 1>>,
                     Roots # {} /\ \A q \in Roots : nodes[q].pc = "done"))
    /\ UNCHANGED <<scenario, bindings, objRegistry, made>>

\* A variant of the bind operation that stores a new Definition object with
\* the fields named in place of the one it found.
BoundAfresh(def, b) ==
    IF b.op = "toClass" THEN toClass([makeType(def.type) EXCEPT !.obj = def.obj + 1], "ok")
    ELSE IF b.op = "toValue" THEN toValue([makeType(def.type) EXCEPT !.obj = def.obj + 1], 1)
    ELSE IF b.op = "toType" THEN toType([makeType(def.type) EXCEPT !.obj = def.obj + 1], "z")
    ELSE IF b.op = "withArgument"
    THEN withArguments([makeType(def.type) EXCEPT !.obj = def.obj + 1], <<"one">>)
    ELSE shared([makeType(def.type) EXCEPT !.obj = def.obj + 1], FALSE)

\* The bind operation b applied to the Definition object def: the fields
\* named are assigned to that object.
Bound(def, b) ==
    IF b.op = "toClass" THEN toClass(def, "ok")
    ELSE IF b.op = "toValue" THEN toValue(def, 1)
    ELSE IF b.op = "toType" THEN toType(def, "z")
    ELSE IF b.op = "withArgument" THEN withArguments(def, <<"one">>)
    ELSE shared(def, FALSE)

\* The shallow copy made of a definition holds the args array of the
\* definition, not a copy of it: what withArgument stores in the array of
\* def is seen through the resolution, unless def had no array when it was
\* copied.
SharedArgs(res, type, def) ==
    IF type \in DOMAIN res /\ res[type].hasArgs
    THEN [res EXCEPT ![type].args = def.args]
    ELSE res

\* dm.bind(type) followed by one operation of the binding, made between two
\* steps of the running calls: BaseBining looks the Definition object up,
\* stores a Type placeholder when there is none, and the operation assigns
\* to the object.
Bind(b) ==
    /\ ~Hung
    /\ b \in Scenarios[scenario].binds
    /\ Len(bindings) < MaxBinds
    /\ defRegistry' = [GetDefinition(defRegistry, b.type)
                          EXCEPT ![b.type] = Bound(@, b)]
    /\ resolution' = SharedArgs(resolution, b.type,
                                Bound(GetDefinition(defRegistry, b.type)[b.type], b))
    /\ bindings' = Append(bindings, b)
    /\ UNCHANGED <<scenario, cache, objRegistry, nodes, made>>

\* DependencyManager.get(type): a new context with shared = true.
Get(type) == type \in Scenarios[scenario].gets /\ TopLevel("get", type)

\* DependencyManager.create(type, parameters): a new context with shared = false.
Create(type) == type \in Scenarios[scenario].creates /\ TopLevel("create", type)

----------------------------------------------------------------------------
(* DefinitionResolver.resolve after the await of a plugin resolver         *)

Resolving(n) == IsNode(n) /\ nodes[n].pc = "resolving"

\* A plugin resolver that is not the last returned: its data is merged into
\* the copy and the next resolver is called with it.
PluginReturns(n) ==
    /\ Resolving(n)
    /\ nodes[n].plugin < Resolvers
    /\ nodes' = [nodes EXCEPT ![n].resolved = Assign(@, PluginData(nodes[n].plugin, @)),
                              ![n].plugin = @ + 1]
    /\ UNCHANGED <<scenario, bindings, defRegistry, cache, resolution, objRegistry, made>>

\* resolve returns r.result to the call n of get; merged is the copy it made.
Returns(n, merged, r) ==
    [registry |-> r.registry, cache |-> r.cache, resolution |-> r.resolution,
     nodes |-> [nodes EXCEPT ![n].def = r.result, ![n].pc = "resolved",
                             ![n].resolved = merged,
                             ![n].got = r.resolution[r.result].copy]]

\* The end of resolve after the plugin resolvers: the merged copy becomes the
\* resolution of the definition unless it carries one by now, the References
\* recorded are given the resolution the definition carries, and that one is
\* returned.  The definition made on the fly is seen by this call alone.
Finished(n, merged) ==
    IF nodes[n].end = Anonymous
    THEN [State EXCEPT !.nodes = [nodes EXCEPT ![n].pc = "resolved",
                                               ![n].resolved = merged,
                                               ![n].got = merged.copy]]
    ELSE Returns(n, merged,
                 Tagged([registry |-> defRegistry, def |-> nodes[n].end,
                         tags |-> nodes[n].tags],
                        DefineProperty(cache, nodes[n].end, nodes[n].end),
                        DefineProperty(resolution, nodes[n].end, merged)))

\* The last plugin resolver returned.
PluginsDone(n) ==
    /\ Resolving(n)
    /\ nodes[n].plugin = Resolvers
    /\ Becomes(Finished(n, Assign(nodes[n].resolved,
                                  PluginData(nodes[n].plugin, nodes[n].resolved))))
    /\ UNCHANGED <<scenario, bindings, objRegistry, made>>

\* One more test of the while loop of resolve in the call n: the loop is
\* left as in Chase, or the Reference is recorded and its target looked up.
\* The list of the References recorded is kept up to MaxHops + 2 entries.
Iterated(n, at) ==
    IF at.done
    THEN Called([State EXCEPT !.nodes = [m \in DOMAIN nodes \ {n} |-> nodes[m]]],
                n, nodes[n].role, nodes[n].dep,
                Cached(at, cache, resolution))
    ELSE [State EXCEPT !.registry = at.registry,
                       !.nodes = [nodes EXCEPT
                                     ![n].end = at.def,
                                     ![n].tags = IF Len(at.tags) > MaxHops + 2
                                                 THEN @ ELSE at.tags]]

Iterate(n) ==
    /\ n \in DOMAIN nodes
    /\ nodes[n].pc = "looping"
    /\ Becomes(Iterated(n, ChaseStep([registry |-> defRegistry, def |-> nodes[n].end,
                                      tags |-> nodes[n].tags, done |-> FALSE], cache)))
    /\ UNCHANGED <<scenario, bindings, objRegistry, made>>

----------------------------------------------------------------------------
(* DependencyProvider.get after the await of the resolved definition       *)

Resolved(n) == IsNode(n) /\ nodes[n].pc = "resolved"

\* ctx.registry && hash && ctx.registry[hash]
InContextRegistry(n) ==
    HashOf(DefOf(n)) # "" /\ HashOf(DefOf(n)) \in DOMAIN CtxOf(n).reg

\* The context registry holds a future under the hash: it is returned, and
\* the call settles as the future does.
RegistryHit(n) ==
    /\ Resolved(n)
    /\ InContextRegistry(n)
    /\ nodes' = [nodes EXCEPT ![n].pc = "join",
                              ![n].future = CtxOf(n).reg[HashOf(DefOf(n))]]
    /\ UNCHANGED <<scenario, bindings, defRegistry, cache, resolution, objRegistry, made>>

\* getDependency is reached and forkContext does not throw.
Dispatched(n, kind) ==
    /\ Resolved(n)
    /\ ~InContextRegistry(n)
    /\ ~StackIncludes(CtxOf(n).stack, nodes[n].def)
    /\ DefOf(n).kind = kind

\* forkContext finds the definition on the stack.
CyclicDependency(n) ==
    /\ Resolved(n)
    /\ ~InContextRegistry(n)
    /\ StackIncludes(CtxOf(n).stack, nodes[n].def)
    /\ nodes' = Settle(nodes, n, NoValue, "Cyclic dependency")
    /\ UNCHANGED <<scenario, bindings, defRegistry, cache, resolution, objRegistry, made>>

\* The switch of getDependency matches no kind.
InvalidDefinition(n) ==
    /\ Resolved(n)
    /\ ~InContextRegistry(n)
    /\ ~StackIncludes(CtxOf(n).stack, nodes[n].def)
    /\ DefOf(n).kind \notin {"value", "array", "record", "type"}
    /\ nodes' = Settle(nodes, n, NoValue, "Invalid definition")
    /\ UNCHANGED <<scenario, bindings, defRegistry, cache, resolution, objRegistry, made>>

\* getValue
GetValue(n) ==
    /\ Dispatched(n, "value")
    /\ nodes' = Settle(nodes, n, Payload(DefOf(n).value), "")
    /\ UNCHANGED <<scenario, bindings, defRegistry, cache, resolution, objRegistry, made>>

\* getArray and getRecord: get is called for every slot with the forked
\* context, and the results are awaited together.
GetAll(n) ==
    /\ Becomes(CallAll([State EXCEPT !.nodes =
                          [nodes EXCEPT ![n] =
                              [Forked(n) EXCEPT
                                 !.pc = "all", !.left = Len(DefOf(n).elements),
                                 !.elems = [i \in DOMAIN DefOf(n).elements |-> NoValue]]]],
                       n, DefOf(n).elements, 1))
    /\ UNCHANGED <<scenario, bindings, objRegistry, made>>

GetArray(n) == Dispatched(n, "array") /\ GetAll(n)

GetRecord(n) == Dispatched(n, "record") /\ GetAll(n)

----------------------------------------------------------------------------
(* ObjectProvider.get and ObjectFactory.create                             *)

\* A variant of create that calls getProps together with getArgs.
CreateStartWithProps(n, me) ==
    nodes' = CallAnonymous(
                 CallAnonymous([State EXCEPT !.nodes =
                                   [nodes EXCEPT ![n] = [me EXCEPT !.pc = "create"]]],
                               n, "args"),
                 n, "props").nodes

\* ObjectFactory.create up to its first await: getFactory and getArgs are
\* called; getArgs calls get for the arguments when the definition has any.
CreateStart(n, me) ==
    LET def == DefOf(n)
        ns == [nodes EXCEPT ![n] = [me EXCEPT !.pc = "create",
                                    !.argv = IF def.hasArgs THEN NoValue
                                             ELSE ArrayOf(<<>>)]]
    IN nodes' = IF def.hasArgs
                THEN CallAnonymous([State EXCEPT !.nodes = ns], n, "args").nodes
                ELSE ns

\* A variant of ObjectProvider.get that never looks a Future up.
HasFutureNever(registry, def) == FALSE

\* A variant of ObjectProvider.get that takes a Future that was never set
\* for none.
HasFutureSettled(registry, def) == def \in DOMAIN registry /\ registry[def] # Pending

\* this.registry.get(def) in ObjectProvider.get finds a Future.
HasFuture(registry, def) == def \in DOMAIN registry

\* getType with ctx.shared: ObjectProvider.get finds a Future in the
\* instance registry and returns it.
ProviderJoin(n) ==
    /\ Dispatched(n, "type")
    /\ Forked(n).shared
    /\ HashOf(DefOf(n)) \notin DOMAIN Forked(n).reg
    /\ HasFuture(objRegistry, nodes[n].def)
    /\ nodes' = [nodes EXCEPT ![n] = [Forked(n) EXCEPT !.pc = "join",
                                                       !.future = nodes[n].def]]
    /\ UNCHANGED <<scenario, bindings, defRegistry, cache, resolution, objRegistry, made>>

\* getType with ctx.shared: ObjectProvider.get finds no Future, registers a
\* new one in the instance registry and in the context, and calls create.
ProviderCreate(n) ==
    /\ Dispatched(n, "type")
    /\ Forked(n).shared
    /\ HashOf(DefOf(n)) \notin DOMAIN Forked(n).reg
    /\ ~HasFuture(objRegistry, nodes[n].def)
    /\ objRegistry' = (nodes[n].def :> Pending) @@ objRegistry
    /\ CreateStart(n, [Forked(n) EXCEPT
                         !.instance = nodes[n].def,
                         !.reg = (HashOf(DefOf(n)) :> nodes[n].def) @@ @])
    /\ UNCHANGED <<scenario, bindings, defRegistry, cache, resolution, made>>

\* getType without ctx.shared: create is called directly.
FactoryCreate(n) ==
    /\ Dispatched(n, "type")
    /\ ~Forked(n).shared
    /\ CreateStart(n, Forked(n))
    /\ UNCHANGED <<scenario, bindings, defRegistry, cache, resolution, objRegistry, made>>

Creating(n) == IsNode(n) /\ nodes[n].pc = "create"

\* await factoryPromise: getFactory threw.
MissingFactory(n) ==
    /\ Creating(n)
    /\ DefOf(n).factory = "none"
    /\ nodes' = Settle(nodes, n, NoValue, "Factory is not defined")
    /\ UNCHANGED <<scenario, bindings, defRegistry, cache, resolution, objRegistry, made>>

\* factory(...args): the arguments are resolved and the factory is called.
InvokeFactory(n) ==
    /\ Creating(n)
    /\ DefOf(n).factory # "none"
    /\ nodes[n].fail = ""
    /\ nodes[n].argv # NoValue
    /\ made' = made @@ (n :> [type |-> DefOf(n).type, def |-> nodes[n].def,
                               args |-> nodes[n].argv, props |-> NoValue])
    /\ nodes' = [nodes EXCEPT ![n].pc = "factory"]
    /\ UNCHANGED <<scenario, bindings, defRegistry, cache, resolution, objRegistry>>

\* A variant of Future.set that leaves the Future as it is.
SetFutureNever(registry, future, value) == registry

\* Future.set: the first value set stays.
SetFuture(registry, future, value) ==
    IF future # "" /\ registry[future] = Pending
    THEN [registry EXCEPT ![future] = value]
    ELSE registry

\* The factory returned: the pending Future of the context is set, then
\* getProps calls get for the properties when the definition has any; without
\* properties the instance is returned.
FactoryReturn(n) ==
    /\ IsNode(n)
    /\ nodes[n].pc = "factory"
    /\ DefOf(n).factory = "ok"
    /\ objRegistry' = SetFuture(objRegistry, nodes[n].instance, Instance(n))
    /\ nodes' = IF DefOf(n).hasProps
                THEN CallAnonymous([State EXCEPT !.nodes =
                                       [nodes EXCEPT ![n].pc = "props"]], n, "props").nodes
                ELSE Settle(nodes, n, Instance(n), "")
    /\ made' = IF DefOf(n).hasProps THEN made
               ELSE [made EXCEPT ![n].props = RecordOf(<<>>, <<>>)]
    /\ UNCHANGED <<scenario, bindings, defRegistry, cache, resolution>>

\* The factory threw.
FactoryThrow(n) ==
    /\ IsNode(n)
    /\ nodes[n].pc = "factory"
    /\ DefOf(n).factory = "throws"
    /\ nodes' = Settle(nodes, n, NoValue, "Factory failed")
    /\ UNCHANGED <<scenario, bindings, defRegistry, cache, resolution, objRegistry, made>>

\* Object.assign(instance, props); return instance
AssignProps(n) ==
    /\ IsNode(n)
    /\ nodes[n].pc = "props"
    /\ nodes[n].fail = ""
    /\ nodes[n].propv # NoValue
    /\ made' = [made EXCEPT ![n].props = nodes[n].propv]
    /\ nodes' = Settle(nodes, n, Instance(n), "")
    /\ UNCHANGED <<scenario, bindings, defRegistry, cache, resolution, objRegistry>>

----------------------------------------------------------------------------
(* Completion of the awaited calls                                         *)

\* Promise.all(...).then(() => elems): every slot was resolved.
AllFulfilled(n) ==
    /\ IsNode(n)
    /\ nodes[n].pc = "all"
    /\ nodes[n].fail = ""
    /\ nodes[n].left = 0
    /\ LET elems == [i \in DOMAIN nodes[n].elems |-> Read(nodes[n].elems[i])]
       IN nodes' = Settle(nodes, n,
                          IF DefOf(n).kind = "array" THEN ArrayOf(elems)
                          ELSE RecordOf(DefOf(n).keys, elems), "")
    /\ UNCHANGED <<scenario, bindings, defRegistry, cache, resolution, objRegistry, made>>

\* An awaited call was rejected: the error is thrown on, unchanged, by
\* Promise.all, by create (args before the factory is called, props after)
\* and by get.
Rethrow(n) ==
    /\ IsNode(n)
    /\ \/ nodes[n].pc \in {"all", "props"}
       \/ nodes[n].pc = "create" /\ DefOf(n).factory # "none"
    /\ nodes[n].fail # ""
    /\ nodes' = Settle(nodes, n, NoValue, nodes[n].fail)
    /\ UNCHANGED <<scenario, bindings, defRegistry, cache, resolution, objRegistry, made>>

\* The Future a call returned was set: the call is fulfilled with its value.
JoinSettle(n) ==
    /\ IsNode(n)
    /\ nodes[n].pc = "join"
    /\ objRegistry[nodes[n].future] # Pending
    /\ nodes' = Settle(nodes, n, objRegistry[nodes[n].future], "")
    /\ UNCHANGED <<scenario, bindings, defRegistry, cache, resolution, objRegistry, made>>

\* get(ctx, undefined) returned undefined.
ReturnUndefined(n) ==
    /\ IsNode(n)
    /\ nodes[n].pc = "undefined"
    /\ nodes' = Settle(nodes, n, Undef, "")
    /\ UNCHANGED <<scenario, bindings, defRegistry, cache, resolution, objRegistry, made>>

----------------------------------------------------------------------------
(* Specification                                                           *)

\* The calls whose code can run its next step: none while the thread is in
\* the while loop of resolve.
NodeIds == IF Hung THEN {} ELSE DOMAIN nodes

Types == UNION {Scenarios[i].gets \cup Scenarios[i].creates : i \in DOMAIN Scenarios}

Binds == UNION {Scenarios[i].binds : i \in DOMAIN Scenarios}

Next ==
    \/ \E type \in Types : Get(type)
    \/ \E type \in Types : Create(type)
    \/ \E b \in Binds : Bind(b)
    \/ \E n \in DOMAIN nodes : Iterate(n)
    \/ \E n \in NodeIds : PluginReturns(n)
    \/ \E n \in NodeIds : PluginsDone(n)
    \/ \E n \in NodeIds : RegistryHit(n)
    \/ \E n \in NodeIds : CyclicDependency(n)
    \/ \E n \in NodeIds : InvalidDefinition(n)
    \/ \E n \in NodeIds : GetValue(n)
    \/ \E n \in NodeIds : GetArray(n)
    \/ \E n \in NodeIds : GetRecord(n)
    \/ \E n \in NodeIds : ProviderJoin(n)
    \/ \E n \in NodeIds : ProviderCreate(n)
    \/ \E n \in NodeIds : FactoryCreate(n)
    \/ \E n \in NodeIds : MissingFactory(n)
    \/ \E n \in NodeIds : InvokeFactory(n)
    \/ \E n \in NodeIds : FactoryReturn(n)
    \/ \E n \in NodeIds : FactoryThrow(n)
    \/ \E n \in NodeIds : AssignProps(n)
    \/ \E n \in NodeIds : AllFulfilled(n)
    \/ \E n \in NodeIds : Rethrow(n)
    \/ \E n \in NodeIds : JoinSettle(n)
    \/ \E n \in NodeIds : ReturnUndefined(n)

Spec == Init /\ [][Next]_vars

----------------------------------------------------------------------------
(* Vocabulary of the properties                                            *)

Fulfilled(n) == nodes[n].pc = "done" /\ nodes[n].err = ""
Rejected(n) == nodes[n].pc = "done" /\ nodes[n].err # ""

\* The calls made, directly or not, by the top-level call r.
Tree(r) == {n \in DOMAIN nodes : n[1] = r[1]}
Children(n) == {m \in DOMAIN nodes : Len(m) = Len(n) + 1 /\ Parent(m) = n}

\* The calls that asked for the definition whose resolution is def.
Requests(def) == {n \in DOMAIN nodes : nodes[n].def = def}
\* The factory invocations made for it.
Invocations(def) == {m \in DOMAIN made : made[m].def = def}

\* The resolved Type definitions, by the sharing they were bound with.
SharedTypes ==
    {t \in DOMAIN resolution :
        resolution[t].kind = "type" /\ resolution[t].shared # "no"}
NonSharedTypes ==
    {t \in DOMAIN resolution :
        resolution[t].kind = "type" /\ resolution[t].shared = "no"}
FactorylessTypes ==
    {t \in DOMAIN resolution :
        resolution[t].kind = "type" /\ resolution[t].factory = "none"}

\* The call n has a step to take: its code is not waiting for a promise
\* that is still pending.
Runnable(n) ==
    \/ nodes[n].pc \in {"looping", "resolving", "resolved", "undefined", "factory"}
    \/ nodes[n].pc = "create"
       /\ (DefOf(n).factory = "none" \/ nodes[n].fail # "" \/ nodes[n].argv # NoValue)
    \/ nodes[n].pc = "props" /\ (nodes[n].fail # "" \/ nodes[n].propv # NoValue)
    \/ nodes[n].pc = "all" /\ (nodes[n].fail # "" \/ nodes[n].left = 0)
    \/ nodes[n].pc = "join" /\ objRegistry[nodes[n].future] # Pending

\* The job queue is empty: nothing will happen unless a new call is made.
Idle == \A n \in DOMAIN nodes : ~Runnable(n)

\* The dependencies a definition names.
Range(seq) == {seq[i] : i \in DOMAIN seq}
DepsOf(def) ==
    (Range(def.args) \cup Range(def.props) \cup Range(def.elements)
        \cup (IF def.kind = "reference" THEN {def.target} ELSE {})) \ {Undefined}

\* The definitions written so far, bound or literal.
Names == DOMAIN defRegistry \cup DOMAIN Literals

\* The definitions all of whose dependencies are in the set done.
Grounded(done) ==
    {d \in Names : DepsOf(Object(defRegistry, d)) \cap Names \subseteq done}

\* The definitions that reach no cycle over at most k dependencies in a row.
RECURSIVE Founded(_)
Founded(k) == IF k = 0 THEN {} ELSE Grounded(Founded(k - 1))

\* No definition depends on itself, directly or through others.
Acyclic == Founded(Cardinality(Names)) = Names

----------------------------------------------------------------------------
(* Properties                                                              *)

\* C1: the factory of a shared Type definition is invoked at most once, however
\* many calls ask for it (top-level calls in any interleaving, several
\* branches of one graph), and every call for it that is fulfilled received
\* the instance of that one invocation.
SharedTypeMadeOnce ==
    \A t \in SharedTypes :
        /\ Cardinality(Invocations(t)) <= 1
        /\ \A n \in Requests(t) :
              Fulfilled(n) =>
                  /\ Cardinality(Invocations(t)) = 1
                  /\ \E m \in Invocations(t) : nodes[n].val = Instance(m)

\* Two top-level calls for one shared type are fulfilled, and so are two
\* calls for one shared type made in two branches of one graph.
SharedTypeMadeOnceWitness ==
    /\ \E t \in SharedTypes : \E n1, n2 \in Requests(t) :
          /\ n1 # n2 /\ IsTopLevel(n1) /\ IsTopLevel(n2)
          /\ Fulfilled(n1) /\ Fulfilled(n2)
    /\ \E t \in SharedTypes : \E n1, n2 \in Requests(t) :
          /\ n1 # n2 /\ ~IsTopLevel(n1) /\ ~IsTopLevel(n2) /\ n1[1] = n2[1]
          /\ Fulfilled(n1) /\ Fulfilled(n2)

\* C2: a call for a Type definition bound with shared = false never waits for
\* an instance made for another call: when it is fulfilled, it is with the
\* instance of a factory invocation of its own, so that calls fulfilled for
\* the same definition hold pairwise distinct instances and the factory was
\* invoked once for each of them.
NonSharedTypeMadePerRequest ==
    \A t \in NonSharedTypes :
        /\ \A n \in Requests(t) :
              /\ nodes[n].pc # "join"
              /\ Fulfilled(n) =>
                    /\ n \in Invocations(t)
                    /\ nodes[n].val = Instance(n)
        /\ \A n1, n2 \in Requests(t) :
              (n1 # n2 /\ Fulfilled(n1) /\ Fulfilled(n2)) => nodes[n1].val # nodes[n2].val
        /\ Cardinality(Invocations(t)) >=
               Cardinality({n \in Requests(t) : Fulfilled(n)})

\* A non-shared type was asked for by a top-level call and as the argument
\* of two shared parents, and the three calls are fulfilled.
NonSharedTypeMadePerRequestWitness ==
    \E t \in NonSharedTypes : \E n1, n2, n3 \in Requests(t) :
        /\ IsTopLevel(n1) /\ ~IsTopLevel(n2) /\ ~IsTopLevel(n3) /\ n2 # n3
        /\ Fulfilled(n1) /\ Fulfilled(n2) /\ Fulfilled(n3)
        /\ Cardinality(Invocations(t)) = 3

\* The Type definitions a and b take each other as constructor argument.
MutualArguments(a, b) ==
    /\ a # b
    /\ defRegistry[a].kind = "type" /\ defRegistry[b].kind = "type"
    /\ b \in Range(defRegistry[a].args)
    /\ a \in Range(defRegistry[b].args)

\* C3: when A and B take each other as constructor argument, a top-level
\* get(A) does not stay pending: once nothing is left to run it has been
\* rejected with the cyclic-dependency error.
CyclicGetIsRejected ==
    \A a, b \in DOMAIN defRegistry :
        MutualArguments(a, b) =>
            \A r \in Roots :
                (nodes[r].role = "get" /\ nodes[r].dep = a /\ Idle) =>
                    (Rejected(r) /\ nodes[r].err = "Cyclic dependency")

\* C4: with Boo taking Foo as constructor argument, both shared: all
\* top-level get(Boo) return one Boo instance, every top-level get(Foo)
\* returns the Foo instance that Boo was constructed with, and each factory
\* is invoked at most once.
BooEmbedsTheSharedFoo ==
    \A boo, foo \in SharedTypes :
        resolution[boo].args = <<foo>> =>
            /\ Cardinality(Invocations(boo)) <= 1
            /\ Cardinality(Invocations(foo)) <= 1
            /\ \A r1, r2 \in Roots \cap Requests(boo) :
                  (nodes[r1].role = "get" /\ nodes[r2].role = "get"
                      /\ Fulfilled(r1) /\ Fulfilled(r2)) => nodes[r1].val = nodes[r2].val
            /\ \A r1 \in Roots \cap Requests(boo) : \A r2 \in Roots \cap Requests(foo) :
                  (nodes[r1].role = "get" /\ nodes[r2].role = "get"
                      /\ Fulfilled(r1) /\ Fulfilled(r2)) =>
                      made[nodes[r1].val.id].args = ArrayOf(<<nodes[r2].val>>)

\* get(Boo), get(Boo) and get(Foo) of the test's registry are all fulfilled.
BooEmbedsTheSharedFooWitness ==
    /\ DOMAIN defRegistry = {"foo", "boo"}
    /\ \E r1, r2, r3 \in Roots :
          /\ r1 # r2
          /\ nodes[r1].dep = "boo" /\ nodes[r2].dep = "boo" /\ nodes[r3].dep = "foo"
          /\ nodes[r1].role = "get" /\ nodes[r2].role = "get" /\ nodes[r3].role = "get"
          /\ Fulfilled(r1) /\ Fulfilled(r2) /\ Fulfilled(r3)

\* C5: create returns a new instance for the root type on every call: the
\* instance a create call is fulfilled with is the instance of no other
\* top-level call for that type, get or create.
CreateReturnsFreshInstance ==
    \A r1, r2 \in Roots :
        (r1 # r2 /\ nodes[r1].role = "create" /\ nodes[r1].dep = nodes[r2].dep
            /\ Fulfilled(r1) /\ Fulfilled(r2)) => nodes[r1].val # nodes[r2].val

\* C6: over an acyclic graph every top-level call settles: once nothing is
\* left to run, no top-level call is pending.
TopLevelCallsSettle ==
    (Acyclic /\ Idle) => \A r \in Roots : nodes[r].pc = "done"

\* C7: every top-level call for a Type definition that resolves without a
\* factory is rejected with the missing-factory error: once nothing is left
\* to run, each of them has been.
FactorylessIsRejected ==
    Idle =>
        \A t \in FactorylessTypes : \A r \in Roots \cap Requests(t) :
            Rejected(r) /\ nodes[r].err = "Factory is not defined"

\* The call n was rejected by an error thrown in its own code: by
\* forkContext, by getDependency, by getFactory or by the factory.
Raised(n) ==
    /\ Rejected(n)
    /\ \/ /\ nodes[n].err = "Cyclic dependency"
          /\ StackIncludes(CtxOf(n).stack, nodes[n].def)
       \/ /\ nodes[n].err = "Invalid definition"
          /\ DefOf(n).kind \notin {"value", "array", "record", "type"}
       \/ /\ nodes[n].err = "Factory is not defined"
          /\ DefOf(n).kind = "type" /\ DefOf(n).factory = "none"
       \/ /\ nodes[n].err = "Factory failed"
          /\ DefOf(n).kind = "type" /\ DefOf(n).factory = "throws"

\* C8: a top-level call is never fulfilled when a call of its own descent was
\* rejected; every rejection in its descent is an error raised on the spot
\* or the unchanged error of a call made one level below; a failure in its
\* descent leaves it rejected once nothing is left to run, and the error it
\* is rejected with is the one a call of its descent raised.
FailureRejectsTheCall ==
    \A r \in Roots :
        /\ Fulfilled(r) => \A n \in Tree(r) : ~Rejected(n)
        /\ \A n \in Tree(r) :
              Rejected(n) =>
                  \/ Raised(n)
                  \/ \E c \in Children(n) : Rejected(c) /\ nodes[c].err = nodes[n].err
        /\ (Idle /\ \E n \in Tree(r) : Rejected(n)) => Rejected(r)
        /\ Rejected(r) => \E n \in Tree(r) : Raised(n) /\ nodes[n].err = nodes[r].err

\* A factory threw four levels below a top-level call, under its arguments,
\* an Array and a Record, and the call was rejected with the factory's error.
FailureRejectsTheCallWitness ==
    \E r \in Roots : \E n \in Tree(r) :
        /\ Len(n) >= 5
        /\ Raised(n) /\ nodes[n].err = "Factory failed"
        /\ Rejected(r) /\ nodes[r].err = "Factory failed"
        /\ \E m \in Tree(r) : Rejected(m) /\ DefOf(m).kind = "array"
        /\ \E m \in Tree(r) : Rejected(m) /\ DefOf(m).kind = "record"

\* The call n is for an Array or a Record definition.
IsCollection(n) ==
    /\ nodes[n].def # ""
    /\ DefOf(n).kind \in {"array", "record"}

\* C9: the value of an Array call holds at every index i, and the value of a
\* Record call under its i-th key, the value the call made for slot i was
\* fulfilled with, in whatever order those calls were fulfilled; the keys of
\* the Record value are the keys of the definition.
SlotsHoldTheirOwnValues ==
    \A n \in DOMAIN nodes :
        (IsCollection(n) /\ Fulfilled(n)) =>
            /\ nodes[n].val.k = DefOf(n).kind
            /\ DOMAIN nodes[n].val.elems = DOMAIN DefOf(n).elements
            /\ nodes[n].val.keys = DefOf(n).keys
            /\ \A i \in DOMAIN DefOf(n).elements :
                  /\ Fulfilled(Append(n, i))
                  /\ nodes[n].val.elems[i] = nodes[Append(n, i)].val

\* seq lists its members out of increasing order.
OutOfOrder(seq) == \E i, j \in DOMAIN seq : i < j /\ seq[i] > seq[j]

\* An Array call of three slots with three different values was fulfilled
\* after its slots were fulfilled out of declaration order.
SlotsHoldTheirOwnValuesWitness ==
    \E n \in DOMAIN nodes :
        /\ IsCollection(n) /\ Fulfilled(n)
        /\ DefOf(n).kind = "array"
        /\ Len(nodes[n].val.elems) = 3
        /\ \A i, j \in 1..3 : i # j => nodes[n].val.elems[i] # nodes[n].val.elems[j]
        /\ OutOfOrder(nodes[n].arrived)

\* C10: a slot left undefined in an Array or Record definition gives
\* undefined at that slot of the value and rejects nothing; the call of get
\* for undefined resolves nothing (no definition, no registry entry and no
\* resolution exists for it), forks no context, calls nothing, invokes no
\* factory, registers no instance, and is fulfilled with undefined.
UndefinedIsReturnedUntouched ==
    /\ Undefined \notin (DOMAIN defRegistry \cup DOMAIN cache \cup DOMAIN resolution
                           \cup DOMAIN objRegistry)
    /\ \A n \in DOMAIN nodes :
          nodes[n].dep = Undefined =>
              /\ nodes[n].pc \in {"undefined", "done"}
              /\ nodes[n].def = ""
              /\ Children(n) = {}
              /\ n \notin DOMAIN made
              /\ nodes[n].stack = <<>> /\ nodes[n].reg = EmptyMap
              /\ nodes[n].instance = "" /\ nodes[n].future = ""
              /\ nodes[n].err = ""
              /\ nodes[n].pc = "done" => nodes[n].val = Undef
    /\ \A n \in DOMAIN nodes :
          IsCollection(n) =>
              \A i \in DOMAIN DefOf(n).elements :
                  DefOf(n).elements[i] = Undefined =>
                      /\ nodes[n].pc = "all" =>
                            /\ Append(n, i) \in DOMAIN nodes
                            /\ nodes[Append(n, i)].dep = Undefined
                            /\ ~Rejected(Append(n, i))
                      /\ Fulfilled(n) => nodes[n].val.elems[i] = Undef

\* An Array and a Record that each have an undefined slot were both
\* fulfilled, next to slots that are defined.
UndefinedIsReturnedUntouchedWitness ==
    /\ \E n \in DOMAIN nodes :
          /\ IsCollection(n) /\ Fulfilled(n) /\ DefOf(n).kind = "array"
          /\ \E i, j \in DOMAIN DefOf(n).elements :
                /\ DefOf(n).elements[i] = Undefined /\ nodes[n].val.elems[i] = Undef
                /\ nodes[n].val.elems[j] # Undef
    /\ \E n \in DOMAIN nodes :
          /\ IsCollection(n) /\ Fulfilled(n) /\ DefOf(n).kind = "record"
          /\ \E i, j \in DOMAIN DefOf(n).elements :
                /\ DefOf(n).elements[i] = Undefined /\ nodes[n].val.elems[i] = Undef
                /\ nodes[n].val.elems[j] # Undef

\* The call n of get got its definition from resolve, and the definition is
\* an object that outlives the call (bound to a token, or a literal).
Returned(n) ==
    /\ nodes[n].pc \notin {"looping", "resolving", "undefined"}
    /\ nodes[n].def \notin {"", Anonymous}

\* No bind operation was made on any of the definitions defs since the
\* first call.
NotRebound(defs) == \A i \in DOMAIN bindings : bindings[i].type \notin defs

\* C11: with no bind operation in between, all calls of resolve for one
\* Definition object, named by its token or passed as an object, in sequence
\* or overlapping, with plugin resolvers suspended in between, return one
\* and the same resolved object: the copy the definition carries, which is
\* still the copy it carries now.
ResolveReturnsOneObject ==
    /\ \A n \in DOMAIN nodes :
          (Returned(n) /\ NotRebound({nodes[n].dep})) =>
              /\ nodes[n].def = cache[nodes[n].dep]
              /\ nodes[n].got = resolution[nodes[n].def].copy
    /\ \A n1, n2 \in DOMAIN nodes :
          (Returned(n1) /\ Returned(n2) /\ nodes[n1].dep = nodes[n2].dep
              /\ NotRebound({nodes[n1].dep})) =>
              /\ nodes[n1].def = nodes[n2].def
              /\ nodes[n1].got = nodes[n2].got

\* Two overlapping calls of resolve for one definition each made a copy and
\* ran the plugin resolvers on it, and both have returned.
ResolveReturnsOneObjectWitness ==
    \E n1, n2 \in DOMAIN nodes :
        /\ Returned(n1) /\ Returned(n2)
        /\ nodes[n1].dep = nodes[n2].dep
        /\ nodes[n1].resolved # NoValue /\ nodes[n2].resolved # NoValue
        /\ nodes[n1].resolved.copy # nodes[n2].resolved.copy

\* The calls of resolve in which the i-th plugin resolver was invoked on a
\* copy of the Definition object def.
PluginInvocations(i, def) ==
    {n \in DOMAIN nodes : nodes[n].end = def /\ nodes[n].plugin >= i}

\* C12: every plugin resolver is invoked at most once for a Definition
\* object, also when calls of resolve for it overlap.
PluginInvokedOncePerDefinition ==
    \A def \in Names : \A i \in 1..Resolvers :
        Cardinality(PluginInvocations(i, def)) <= 1

----------------------------------------------------------------------------
(* Chains of References                                                    *)

\* The definition a Reference refers to; any other definition itself.
Target(d) ==
    IF d \in DOMAIN defRegistry /\ defRegistry[d].kind = "reference"
    THEN defRegistry[d].target
    ELSE d

\* The definitions on the chain of References that starts at d, followed
\* over at most k References.
RECURSIVE ChainOf(_, _)
ChainOf(d, k) ==
    IF k = 0 \/ Target(d) = d THEN {d} ELSE {d} \cup ChainOf(Target(d), k - 1)

\* The definition the chain from d ends at.
Terminal(d) == CHOOSE t \in ChainOf(d, MaxHops) : Target(t) = t

\* C13: a chain of References that ends in a definition that is no
\* Reference is followed to its end: a call of resolve for any definition
\* of the chain returns the resolved object of the definition at the end,
\* and once it returned every definition from the one requested to the end
\* of the chain carries that same resolution, in whatever order the
\* definitions of the chain were requested.  The chain is the one bound
\* before the first call: none of its definitions was bound again since.
ChainCarriesOneResolution ==
    \A n \in DOMAIN nodes :
        (Returned(n) /\ NotRebound(ChainOf(nodes[n].dep, MaxHops))) =>
            /\ \E t \in ChainOf(nodes[n].dep, MaxHops) : Target(t) = t
            /\ nodes[n].def = Terminal(nodes[n].dep)
            /\ nodes[n].got = resolution[Terminal(nodes[n].dep)].copy
            /\ \A d \in ChainOf(nodes[n].dep, MaxHops) :
                  d \in DOMAIN cache /\ cache[d] = Terminal(nodes[n].dep)

\* The chain alias -> via -> c was requested at via first, then at alias and
\* at c, and all three calls have returned.
ChainCarriesOneResolutionWitness ==
    /\ {<<1>>, <<2>>, <<3>>} \subseteq DOMAIN nodes
    /\ nodes[<<1>>].dep = "via" /\ nodes[<<2>>].dep = "alias" /\ nodes[<<3>>].dep = "c"
    /\ Target("alias") = "via" /\ Target("via") = "c"
    /\ \A n \in {<<1>>, <<2>>, <<3>>} : Returned(n) /\ nodes[n].def = "c"
    /\ cache["alias"] = "c" /\ cache["via"] = "c" /\ cache["c"] = "c"

\* The shared types s and r form a cycle that is closed through a property:
\* s has a property bound to r and r takes s as constructor argument.
PropertyCycle(s, r) ==
    /\ s # r
    /\ defRegistry[s].kind = "type" /\ defRegistry[r].kind = "type"
    /\ IsShared(defRegistry[s]) /\ IsShared(defRegistry[r])
    /\ r \in Range(defRegistry[s].props)
    /\ s \in Range(defRegistry[r].args)

\* C14: a cycle among shared types that is closed through a property is
\* resolved without error: no factory of the cycle is invoked twice, no call
\* is rejected with the cyclic-dependency error, every nested request for
\* the type with the property that is fulfilled received the instance its
\* factory produced, and once nothing is left to run every top-level get
\* for a type of the cycle has been fulfilled.
PropertyCycleIsResolved ==
    \A s, r \in DOMAIN defRegistry :
        PropertyCycle(s, r) =>
            /\ Cardinality(Invocations(s)) <= 1
            /\ Cardinality(Invocations(r)) <= 1
            /\ \A n \in DOMAIN nodes : nodes[n].err # "Cyclic dependency"
            /\ \A n \in Requests(s) :
                  Fulfilled(n) => \E m \in Invocations(s) : nodes[n].val = Instance(m)
            /\ Idle =>
                  \A t \in Roots :
                      (nodes[t].role = "get" /\ nodes[t].dep \in {s, r}) => Fulfilled(t)

\* C15: a top-level get for a shared type that has properties is fulfilled
\* with an instance whose properties are assigned already, whether the call
\* ran the construction itself or joined one in flight.
FulfilledWithProperties ==
    \A r \in Roots :
        (/\ nodes[r].role = "get"
         /\ Fulfilled(r)
         /\ nodes[r].def \in SharedTypes
         /\ resolution[nodes[r].def].hasProps
         /\ nodes[r].val.k = "instance") =>
            made[nodes[r].val.id].props # NoValue

\* The calls that ran ObjectFactory.create as far as the factory.
Constructions == DOMAIN made

\* C16: the order of the steps of ObjectFactory.create.  The factory is
\* invoked with the resolved arguments, after the call for them was
\* fulfilled; the pending Future of the context is not set before the
\* factory returned and is set to the new instance before a property is
\* assigned; the call is fulfilled only after the properties were assigned,
\* with the resolved properties when the definition has any.
CreateStepsInOrder ==
    /\ \A n \in Constructions :
          /\ made[n].args # NoValue
          /\ DefOf(n).hasArgs =>
                /\ Append(n, ArgsSlot) \in DOMAIN nodes
                /\ Fulfilled(Append(n, ArgsSlot))
                /\ made[n].args = nodes[Append(n, ArgsSlot)].val
          /\ (nodes[n].pc = "factory" /\ nodes[n].instance # "") =>
                objRegistry[nodes[n].instance] = Pending
          /\ (nodes[n].pc = "props" /\ nodes[n].instance # "") =>
                objRegistry[nodes[n].instance] = Instance(n)
          /\ nodes[n].pc \in {"factory", "props"} => made[n].props = NoValue
          /\ (made[n].props # NoValue /\ nodes[n].instance # "") =>
                objRegistry[nodes[n].instance] = Instance(n)
          /\ Fulfilled(n) =>
                /\ nodes[n].val = Instance(n)
                /\ made[n].props # NoValue
                /\ DefOf(n).hasProps =>
                      /\ Append(n, PropsSlot) \in DOMAIN nodes
                      /\ Fulfilled(Append(n, PropsSlot))
                      /\ made[n].props = nodes[Append(n, PropsSlot)].val
    /\ \A n \in DOMAIN nodes :
          (nodes[n].pc = "create" /\ nodes[n].instance # "") =>
              (n \notin Constructions /\ objRegistry[nodes[n].instance] = Pending)

\* A construction with arguments, properties and a Future of the context
\* went through all its steps and was fulfilled.
CreateStepsInOrderWitness ==
    \E n \in Constructions :
        /\ DefOf(n).hasArgs /\ DefOf(n).hasProps /\ nodes[n].instance # ""
        /\ Fulfilled(n)
        /\ made[n].props.k = "record" /\ Len(made[n].props.elems) > 0

\* C17: the arguments and the properties of a Type definition are resolved
\* concurrently: while create waits for its arguments, before the factory
\* is invoked, the call of get for the properties has been made.
PropsStartedWithArgs ==
    \A n \in DOMAIN nodes :
        (/\ nodes[n].pc = "create"
         /\ DefOf(n).factory # "none"
         /\ DefOf(n).hasArgs /\ DefOf(n).hasProps) =>
            Append(n, PropsSlot) \in DOMAIN nodes

\* C17, amended: the properties are resolved after the arguments, not
\* together with them: the call of get for the properties is made only
\* after the call for the arguments was fulfilled and the factory, invoked
\* with them, has returned.
PropsStartedAfterFactory ==
    \A n \in DOMAIN nodes :
        Append(n, PropsSlot) \in DOMAIN nodes =>
            /\ n \in Constructions
            /\ nodes[n].pc \notin {"create", "factory"}
            /\ made[n].args # NoValue
            /\ DefOf(n).hasArgs =>
                  /\ Fulfilled(Append(n, ArgsSlot))
                  /\ made[n].args = nodes[Append(n, ArgsSlot)].val

\* A type with arguments and properties waits for its properties, which
\* were asked for after its factory returned.
PropsStartedAfterFactoryWitness ==
    \E n \in Constructions :
        /\ DefOf(n).hasArgs /\ DefOf(n).hasProps
        /\ nodes[n].pc = "props"
        /\ Append(n, PropsSlot) \in DOMAIN nodes
        /\ ~Fulfilled(Append(n, PropsSlot))

\* The calls on the way from the top-level call down to n, n included: the
\* descent path of n.
Path(n) == [i \in 1..Len(n) |-> SubSeq(n, 1, i)]
\* The calls above n on its descent path.
Ancestors(n) == {SubSeq(n, 1, i) : i \in 1..(Len(n) - 1)}
\* The calls below n, n included.
Descent(n) == {m \in DOMAIN nodes : Len(m) >= Len(n) /\ SubSeq(m, 1, Len(n)) = n}

\* The call n went through forkContext and keeps the context it returned:
\* it waits for its slots, or it is in create.
HasForked(n) ==
    \/ nodes[n].pc \in {"all", "create", "factory", "props"}
    \/ nodes[n].stack # <<>>

\* C18: the cyclic-dependency error is raised only for a definition that is
\* being resolved by an ancestor of the call on its descent path.  The stack
\* of a forked context holds the definitions of the calls on the descent
\* path and nothing else, whatever the sibling branches did meanwhile; a
\* call rejected with the cyclic-dependency error has below it a call for a
\* definition that one of that call's ancestors is resolving; and in a graph
\* without cycle, such as the diamond, no call is rejected with it.
CyclicOnlyOnDescentPath ==
    /\ \A n \in DOMAIN nodes :
          HasForked(n) =>
              /\ nodes[n].stack = [i \in 1..Len(n) |-> nodes[Path(n)[i]].def]
              /\ nodes[n].stack = Append(CtxOf(n).stack, nodes[n].def)
    /\ \A n \in DOMAIN nodes :
          nodes[n].err = "Cyclic dependency" =>
              \E m \in Descent(n) : \E a \in Ancestors(m) :
                  /\ nodes[m].err = "Cyclic dependency"
                  /\ nodes[m].stack = <<>>
                  /\ nodes[m].def # Anonymous
                  /\ nodes[a].def = nodes[m].def
    /\ Acyclic => \A n \in DOMAIN nodes : nodes[n].err # "Cyclic dependency"

\* The diamond over the non-shared d: the two branches of a have both forked
\* a context for d, each with its own descent path as stack, and a was
\* fulfilled.
CyclicOnlyOnDescentPathWitness ==
    \E r \in Roots : \E n1, n2 \in Tree(r) :
        /\ Fulfilled(r)
        /\ n1 # n2
        /\ nodes[n1].def = nodes[n2].def
        /\ nodes[n1].def \in NonSharedTypes
        /\ Len(nodes[n1].stack) = 5 /\ Len(nodes[n2].stack) = 5
        /\ nodes[n1].stack # nodes[n2].stack

\* The calls that stored a Future in their context registry: those for which
\* ObjectProvider.get found none in the instance registry.
Stored(n) == nodes[n].instance # ""

\* The call n was answered with a Future by DependencyProvider.get, from the
\* registry of the context it was called with; it forked no context.
FromContextRegistry(n) == nodes[n].future # "" /\ ~HasForked(n)

\* The call n was answered with a Future by ObjectProvider.get, from the
\* instance registry.
FromInstanceRegistry(n) == nodes[n].future # "" /\ HasForked(n)

\* C19: within one top-level call all forked contexts share one registry
\* map: what one call stored is in the registry of every context forked in
\* that top-level call, and a call that was answered with the Future another
\* call stored was answered from the context registry.
ForksShareOneRegistry ==
    \A r \in Roots :
        /\ \A n, m \in Tree(r) :
              (HasForked(n) /\ HasForked(m)) => nodes[n].reg = nodes[m].reg
        /\ \A n, m \in Tree(r) :
              (Stored(m) /\ nodes[n].future = nodes[m].instance) =>
                  FromContextRegistry(n)

\* C19, amended: every forked context has a registry map of its own, a copy
\* of its parent's: it holds the Futures stored by the calls on its descent
\* path and no other.  A request for a key that a call on the descent path
\* stored is answered from the context registry; a request for a key that
\* another branch stored finds nothing there and is answered with that
\* Future from the instance registry.
ForksCopyTheRegistry ==
    \A n \in DOMAIN nodes :
        /\ HasForked(n) =>
              /\ DOMAIN nodes[n].reg =
                    {HashOf(DefOf(a)) : a \in {b \in Ancestors(n) \cup {n} : Stored(b)}}
              /\ \A a \in Ancestors(n) \cup {n} :
                    Stored(a) => nodes[n].reg[HashOf(DefOf(a))] = nodes[a].instance
        /\ FromContextRegistry(n) =>
              \E a \in Ancestors(n) : Stored(a) /\ nodes[a].instance = nodes[n].future
        /\ FromInstanceRegistry(n) =>
              /\ nodes[n].future \in DOMAIN objRegistry
              /\ \A a \in Ancestors(n) : ~(Stored(a) /\ nodes[a].instance = nodes[n].future)

\* In the diamond over the shared d one branch stored the Future of d, and
\* the sibling branch, whose registry does not hold it, was answered with
\* that Future from the instance registry within the same top-level call.
ForksCopyTheRegistryWitness ==
    \E r \in Roots : \E n, m \in Tree(r) :
        /\ Stored(m) /\ Len(m) > 1
        /\ FromInstanceRegistry(n)
        /\ nodes[n].future = nodes[m].instance
        /\ HashOf(DefOf(m)) \notin DOMAIN nodes[n].reg
        /\ Fulfilled(n) /\ nodes[n].val = Instance(m)

\* The top-level get r2 is a later call, independent of r1: it was made when
\* r1 and every other top-level call made before it had settled, and it asks
\* for the shared type r1 asked for.
LaterGet(r1, r2) ==
    /\ r1[1] < r2[1]
    /\ nodes[r2].later
    /\ nodes[r1].role = "get" /\ nodes[r2].role = "get"
    /\ Returned(r1) /\ Returned(r2)
    /\ nodes[r1].def = nodes[r2].def
    /\ nodes[r1].def \in SharedTypes

\* C20: the memoization of shared instances is scoped to one top-level call:
\* a later, independent top-level get is not answered with a Future an
\* earlier call stored, and is not fulfilled with the instance an earlier
\* call was fulfilled with.
LaterGetStartsUnmemoized ==
    \A r1, r2 \in Roots :
        (LaterGet(r1, r2) /\ Fulfilled(r1)) =>
            /\ nodes[r2].future = ""
            /\ Fulfilled(r2) => nodes[r2].val # nodes[r1].val

\* C20, amended: only the context registry is scoped to one top-level call;
\* the memoization of shared instances is process-wide.  The context of a
\* top-level call holds no Future but the one that call stored itself, and
\* a later, independent
\* top-level get for a shared type that an earlier get was fulfilled with
\* invokes no factory: it is answered from the instance registry and
\* fulfilled with the instance the earlier call was fulfilled with.
LaterGetReusesTheInstance ==
    /\ \A r \in Roots :
          HasForked(r) => DOMAIN nodes[r].reg \subseteq {HashOf(DefOf(r))}
    /\ \A r1, r2 \in Roots :
          (LaterGet(r1, r2) /\ Fulfilled(r1)) =>
              /\ r2 \notin Constructions
              /\ objRegistry[nodes[r2].def] = nodes[r1].val
              /\ nodes[r2].pc # "resolved" =>
                    /\ FromInstanceRegistry(r2)
                    /\ nodes[r2].future = nodes[r2].def
                    /\ Children(r2) = {}
              /\ nodes[r2].pc = "done" => (Fulfilled(r2) /\ nodes[r2].val = nodes[r1].val)

\* A get made after an earlier get for the same shared type was fulfilled
\* has been fulfilled too.
LaterGetReusesTheInstanceWitness ==
    \E r1, r2 \in Roots :
        /\ LaterGet(r1, r2)
        /\ Fulfilled(r1) /\ Fulfilled(r2)
        /\ r1 \in Constructions
        /\ nodes[r2].val = Instance(r1)

----------------------------------------------------------------------------
(* Binds made while calls are running                                      *)

\* C21: the resolution a Definition object carries is what resolve returns
\* for it, whatever bind operations were made on its token in between:
\* every call of resolve for a token returned the resolution that the
\* token's definition carries, the one its first resolve cached.
ResolveReturnsTheCachedObject ==
    \A n \in DOMAIN nodes :
        Returned(n) =>
            /\ nodes[n].dep \in DOMAIN cache
            /\ nodes[n].def = cache[nodes[n].dep]
            /\ nodes[n].got = resolution[cache[nodes[n].dep]].copy

----------------------------------------------------------------------------
(* Plugin resolvers                                                        *)

\* The k-th shallow copy of the Type definition def after the first i of the
\* two plugin resolvers have returned: the first gives it a factory and
\* marks it non-shared, the second marks it shared.
MergedUpTo(def, k, i) ==
    IF def.kind # "type" \/ i = 0 THEN [def EXCEPT !.copy = k]
    ELSE IF i = 1 THEN [def EXCEPT !.copy = k, !.factory = "ok", !.shared = "no"]
    ELSE [def EXCEPT !.copy = k, !.factory = "ok", !.shared = "yes"]

\* C22: the plugin resolvers run one after another in registration order,
\* each on the copy that holds the results of the earlier ones; the
\* resolution cached is the definition's fields overridden by the fields
\* the plugins returned, a later plugin's value winning; the fields of the
\* Definition object itself stay as they were bound.
PluginsMergeInOrder ==
    Resolvers = 2 =>
        /\ \A n \in DOMAIN nodes :
              (nodes[n].pc = "resolving" /\ nodes[n].end # Anonymous) =>
                  /\ nodes[n].plugin \in 1..Resolvers
                  /\ nodes[n].resolved =
                        MergedUpTo(Object(defRegistry, nodes[n].end),
                                   nodes[n].resolved.copy, nodes[n].plugin - 1)
        /\ \A t \in DOMAIN resolution :
              /\ resolution[t] = MergedUpTo(Object(defRegistry, t), resolution[t].copy, Resolvers)
              /\ resolution[t].copy > 0
        /\ \A t \in DOMAIN Scenarios[scenario].registry :
              defRegistry[t] = Scenarios[scenario].registry[t]

\* The definition p, bound without factory, carries a resolution with the
\* factory of the first plugin and the sharing of the second, and a call for
\* it was fulfilled.
PluginsMergeInOrderWitness ==
    /\ Resolvers = 2
    /\ "p" \in DOMAIN resolution
    /\ defRegistry["p"].factory = "none" /\ defRegistry["p"].shared = "unset"
    /\ resolution["p"].factory = "ok" /\ resolution["p"].shared = "yes"
    /\ \E n \in Requests("p") : Fulfilled(n)

----------------------------------------------------------------------------
(* The definition registry                                                 *)

\* The bind operations made on the token t so far, by their place in the
\* order they were made; those among them that set the kind.
BindsOf(t) == {i \in DOMAIN bindings : bindings[i].type = t}
KindBindsOf(t) ==
    {i \in BindsOf(t) : bindings[i].op \in {"toClass", "toValue", "toType"}}
WasBound(t, op) == \E i \in BindsOf(t) : bindings[i].op = op

\* The kind a bind operation gives a definition.
KindOf(op) ==
    IF op = "toClass" THEN "type" ELSE IF op = "toValue" THEN "value" ELSE "reference"

\* The kind the token t was bound with before the first call; an unbound
\* token gets a Type placeholder.
FirstKind(t) ==
    IF t \in DOMAIN Scenarios[scenario].registry
    THEN Scenarios[scenario].registry[t].kind
    ELSE "type"

\* The type tokens asked for or bound so far.
TokensUsed ==
    ({nodes[n].dep : n \in DOMAIN nodes} \ (DOMAIN Literals \cup {"", Undefined}))
        \cup {bindings[i].type : i \in DOMAIN bindings}

----------------------------------------------------------------------------
(* Reference chains that loop                                              *)

IsReference(d) == d \in DOMAIN defRegistry /\ defRegistry[d].kind = "reference"

\* The chain of References from d reaches no definition that would end the
\* while loop of resolve: every definition on it is a Reference, bound so
\* before the first call, when no definition carried a resolution.
LoopsBack(d) ==
    /\ \A t \in ChainOf(d, MaxHops + 1) : IsReference(t)
    /\ NotRebound(ChainOf(d, MaxHops + 1))

\* C24: resolve has no guard against a chain of References that loops back
\* on itself: a call for a definition of such a chain is in the while loop
\* of resolve in every state that follows, it has returned nothing and no
\* error was raised, the cyclic-dependency error included.
ReferenceLoopNeverReturns ==
    \A n \in DOMAIN nodes :
        LoopsBack(nodes[n].dep) =>
            /\ nodes[n].pc = "looping"
            /\ nodes[n].def = ""
            /\ nodes[n].err = ""
            /\ nodes[n].val = NoValue
            /\ \A i \in DOMAIN nodes[n].tags : IsReference(nodes[n].tags[i])
            /\ IsReference(nodes[n].end)

\* get("ping") has gone round the loop ping -> pong -> ping more often than
\* any chain of the registries is long, and is at pong again.
ReferenceLoopNeverReturnsWitness ==
    \E n \in DOMAIN nodes :
        /\ nodes[n].dep = "ping"
        /\ nodes[n].pc = "looping"
        /\ Len(nodes[n].tags) > MaxHops + 1
        /\ nodes[n].end = "pong"

----------------------------------------------------------------------------
(* The Futures of the instance registry                                    *)

\* The calls that registered the Future f.
Storers(f) == {n \in DOMAIN nodes : nodes[n].instance = f}

\* C25: the Future registered for a shared Type definition is set at most
\* once and only with the instance its own factory returned.  A context
\* holds an instance Future only if ObjectProvider.get registered it for
\* that context's own definition; each Future has one such context; and a
\* Future that is set holds the instance made by the call that registered
\* it, whatever was constructed for its arguments and properties.
FutureSetByOwnFactory ==
    /\ \A n \in DOMAIN nodes :
          Stored(n) =>
              /\ nodes[n].instance = nodes[n].def
              /\ nodes[n].instance \in DOMAIN objRegistry
              /\ IsShared(DefOf(n))
    /\ \A f \in DOMAIN objRegistry :
          /\ Cardinality(Storers(f)) = 1
          /\ objRegistry[f] # Pending =>
                \E m \in Storers(f) \cap Constructions :
                    /\ objRegistry[f] = Instance(m)
                    /\ made[m].def = f
    /\ \A m \in Constructions :
          ~Stored(m) => \A f \in DOMAIN objRegistry : objRegistry[f] # Instance(m)

\* A non-shared type was constructed by the Object Factory for an argument
\* of a shared type, and the Future of the shared type was set afterwards
\* with the shared type's own instance.
FutureSetByOwnFactoryWitness ==
    \E m \in Constructions : \E a \in Ancestors(m) :
        /\ ~Stored(m) /\ Fulfilled(m)
        /\ Stored(a) /\ a \in Constructions
        /\ objRegistry[nodes[a].instance] = Instance(a)

\* The call n of get was handed the Future f by ObjectProvider.get.
Joined(n, f) == nodes[n].future = f

\* The call that registered the Future f failed before its factory returned:
\* the definition had no factory, an argument failed or the factory threw.
FailedUnset(f) == \E n \in Storers(f) : Rejected(n) /\ objRegistry[f] = Pending

\* C26: the instance registry only grows, and the factory of a shared Type
\* definition is invoked at most once, also when the invocation failed or
\* there was no factory.  Every Future a call registered is in the registry;
\* a registered Future has one call that registered it, that call alone
\* constructs for it, and it invoked the factory at most once; every other
\* call that reached ObjectProvider.get for the definition was handed the
\* Future and constructed nothing.
InstanceRegistryOnlyGrows ==
    /\ \A n \in DOMAIN nodes : Stored(n) => nodes[n].instance \in DOMAIN objRegistry
    /\ \A f \in DOMAIN objRegistry :
          /\ Cardinality(Storers(f)) = 1
          /\ Cardinality(Invocations(f)) <= 1
          /\ Invocations(f) \subseteq Storers(f)
          /\ \A n \in Requests(f) \ Storers(f) :
                nodes[n].pc \notin {"create", "factory", "props"}
    /\ \A n \in DOMAIN nodes :
          nodes[n].future # "" => nodes[n].future \in DOMAIN objRegistry

\* The construction of a shared type failed, and a call of get made after the
\* failure was handed the Future that was never set.
InstanceRegistryOnlyGrowsWitness ==
    \E f \in DOMAIN objRegistry : \E m \in DOMAIN nodes :
        /\ FailedUnset(f)
        /\ IsTopLevel(m) /\ nodes[m].later
        /\ Joined(m, f) /\ m \notin Storers(f)
        /\ Cardinality(Invocations(f)) <= 1

----------------------------------------------------------------------------
(* Aliases of a shared type                                                *)

\* The top-level call a asked for an alias of the shared Type definition the
\* top-level call t asked for by its own token: a token bound by toType and
\* left so, whose chain of References ends at the token of t.
AliasOf(a, t) ==
    /\ IsTopLevel(a) /\ IsTopLevel(t)
    /\ IsReference(nodes[a].dep)
    /\ NotRebound(ChainOf(nodes[a].dep, MaxHops))
    /\ \E e \in ChainOf(nodes[a].dep, MaxHops) : Target(e) = e
    /\ nodes[t].dep = Terminal(nodes[a].dep)
    /\ nodes[t].dep \in DOMAIN defRegistry
    /\ IsShared(defRegistry[nodes[t].dep])

\* The number of References between the token the call a asked for and the
\* end of its chain.
Hops(a) == Cardinality(ChainOf(nodes[a].dep, MaxHops)) - 1

\* C27: a request for a shared Type through an alias and a request for the
\* target token come to one resolution, one Future and one factory
\* invocation, whichever was made first and whether or not the first had
\* settled when the second was made: when both are fulfilled, it is with the
\* identical instance, the one that single invocation made.
AliasAndTargetShareInstance ==
    \A a, t \in DOMAIN nodes :
        (AliasOf(a, t) /\ Returned(a) /\ Returned(t)) =>
            /\ nodes[a].def = nodes[t].def
            /\ nodes[a].got = nodes[t].got
            /\ Cardinality(Invocations(nodes[t].def)) <= 1
            /\ (Fulfilled(a) \/ Fulfilled(t)) =>
                  \E m \in Invocations(nodes[t].def) :
                      /\ objRegistry[nodes[t].def] = Instance(m)
                      /\ Fulfilled(a) => nodes[a].val = Instance(m)
                      /\ Fulfilled(t) => nodes[t].val = Instance(m)

\* A request through an alias two References away from the target and a
\* request for the target were made before either had settled, and both are
\* fulfilled with one instance.
AliasAndTargetShareInstanceWitness ==
    \E a, t \in DOMAIN nodes :
        /\ AliasOf(a, t) /\ Hops(a) = 2
        /\ ~nodes[a].later /\ ~nodes[t].later
        /\ Fulfilled(a) /\ Fulfilled(t)
        /\ nodes[a].val = nodes[t].val
        /\ nodes[a].val.k = "instance"

====
